---- MODULE Spec2Model ----
(***************************************************************************)
(* Model of elipticalprismnet29-11-24.py: the script that computes the     *)
(* unrolled net of an elliptical prism (two sinusoidal cut lines over 200  *)
(* arc-length samples, clipped to the prism height), plots it and saves    *)
(* it as a PDF, logging every stage and exiting with code 1 on failure.    *)
(*                                                                         *)
(* Numbers.  The script computes in IEEE doubles.  Here a finite double is *)
(* a fixed-point integer in units of 1/SCALE (rounded to nearest), a NaN   *)
(* is the record NaN, and a finite double whose magnitude exceeds every    *)
(* bounded quantity of the model (tan(radians(90)) = 1.6e16) is Big(sign). *)
(* The samples t are kept as exact numerators over the common denominator  *)
(* TDen * SCALE, so that "evenly spaced" is decided exactly.  Rounding     *)
(* below 1/SCALE is not represented.                                       *)
(***************************************************************************)
EXTENDS Integers, Sequences, FiniteSets, TLC

VARIABLES
    cfg,        \* the module-level parameters (lines 27-34)
    pc,         \* position of the interpreter in the script
    perimeter,  \* local of calculate_net_geometry (line 47), units 1/SCALE
    t,          \* local (line 51): numerators over TDen * SCALE
    amplitude1, \* local (line 54)
    amplitude2, \* local (line 55)
    cut1_y,     \* local (lines 58, 62)
    cut2_y,     \* local (lines 59, 63)
    figure,     \* the pyplot figure: "none", "drawn", "shown"
    log,        \* records emitted by this run (the stdout stream handler)
    logFile,    \* elipticalprism_net.log, opened in append mode
    pdfFile,    \* elipticalprism_net_export.pdf: "absent", "partial", "complete"
    saveCalls,  \* number of savefig calls made by this run
    exc,        \* class of the exception in flight: "none", "Exception", "SystemExit"
    failedAt,   \* the step that raised, "none" if none did
    steps,      \* the steps this run has executed, in order
    exitCode,   \* -1 while the process runs, then its exit status
    run,        \* number of the current run of the script
    prev        \* <<>>, or <<the net computed by the latest earlier run>>

vars == <<cfg, pc, perimeter, t, amplitude1, amplitude2, cut1_y, cut2_y, figure,
          log, logFile, pdfFile, saveCalls, exc, failedAt, steps, exitCode, run, prev>>

locals == <<perimeter, t, amplitude1, amplitude2, cut1_y, cut2_y>>

-----------------------------------------------------------------------------
(* Program constants *)

MAJOR_AXIS == 12
MINOR_AXIS == 4
HEIGHT == 25
CUT1_ANGLE == 45
CUT2_ANGLE == 45
CUT1_START_HEIGHT == 3
CUT2_START_HEIGHT == 1
N == 200

(* Resolution of the fixed-point image of a double. *)
SCALE == 100 * 100

(* Bounds of the model *)
MaxRuns == 2
OutOfRange == 2

-----------------------------------------------------------------------------
(* Doubles *)

Num(v) == [k |-> "num", v |-> v]
NaN == [k |-> "nan", v |-> 0]
Big(s) == [k |-> "big", v |-> s]

Sgn(n) == IF n > 0 THEN 1 ELSE IF n < 0 THEN -1 ELSE 0

(* x * y / SCALE for fixed-point x and y, without leaving 32 bits. *)
MulFix(x, y) ==
    LET ay == IF y < 0 THEN -y ELSE y
        p == x * (ay \div SCALE) + (x * (ay % SCALE)) \div SCALE
    IN IF y < 0 THEN -p ELSE p

(* a * b on doubles. *)
FMul(a, b) ==
    IF a.k = "nan" \/ b.k = "nan" THEN NaN
    ELSE IF a.k = "big" /\ b.k = "big" THEN Big(a.v * b.v)
    ELSE IF a.k = "big" THEN (IF b.v = 0 THEN Num(0) ELSE Big(a.v * Sgn(b.v)))
    ELSE IF b.k = "big" THEN (IF a.v = 0 THEN Num(0) ELSE Big(b.v * Sgn(a.v)))
    ELSE Num(MulFix(a.v, b.v))

(* a + b on doubles; two Big of opposite sign do not meet in the script. *)
FAdd(a, b) ==
    IF a.k = "nan" \/ b.k = "nan" THEN NaN
    ELSE IF a.k = "big" THEN a
    ELSE IF b.k = "big" THEN b
    ELSE Num(a.v + b.v)

(* np.maximum(a, b) and np.minimum(a, b) for a finite b: a NaN propagates. *)
FMaximum(a, b) ==
    IF a.k = "nan" THEN NaN
    ELSE IF a.k = "big" THEN (IF a.v > 0 THEN a ELSE b)
    ELSE IF a.v >= b.v THEN a ELSE b

FMinimum(a, b) ==
    IF a.k = "nan" THEN NaN
    ELSE IF a.k = "big" THEN (IF a.v < 0 THEN a ELSE b)
    ELSE IF a.v <= b.v THEN a ELSE b

(* An integer constant of the script as a double. *)
OfInt(n) == Num(n * SCALE)

-----------------------------------------------------------------------------
(* Library functions *)

(* np.tan(np.radians(deg)) for the angles of the model. *)
TanDeg(deg) ==
    CASE deg = 0 -> Num(0)
      [] deg = 30 -> Num(5774)
      [] deg = -30 -> Num(-5774)
      [] deg = 45 -> Num(10000)
      [] deg = -45 -> Num(-10000)
      [] deg = 90 -> Big(1)
      [] deg = -90 -> Big(-1)

(* Denominator of the samples: np.linspace divides the span by num - 1. *)
TDen == N - 1

(* QuarterSine[m + 1] = sin(2 pi m / (4 TDen)), m = 0 .. TDen: np.sin over *)
(* a quarter turn, at the phases the samples and the shifts of pi/2 meet.  *)
QuarterSine == <<
      0, 79, 158, 237, 316, 395, 473, 552, 631, 710,
      789, 867, 946, 1024, 1103, 1181, 1260, 1338, 1416, 1494,
      1572, 1650, 1728, 1806, 1883, 1961, 2038, 2115, 2192, 2269,
      2346, 2423, 2499, 2575, 2652, 2728, 2804, 2879, 2955, 3030,
      3105, 3180, 3255, 3329, 3404, 3478, 3552, 3625, 3699, 3772,
      3845, 3918, 3990, 4063, 4135, 4206, 4278, 4349, 4420, 4491,
      4561, 4631, 4701, 4770, 4840, 4909, 4977, 5046, 5113, 5181,
      5249, 5316, 5382, 5449, 5515, 5580, 5646, 5711, 5775, 5839,
      5903, 5967, 6030, 6093, 6155, 6217, 6279, 6340, 6401, 6461,
      6521, 6581, 6640, 6699, 6758, 6815, 6873, 6930, 6987, 7043,
      7099, 7154, 7209, 7264, 7318, 7371, 7424, 7477, 7529, 7581,
      7632, 7683, 7733, 7783, 7832, 7881, 7930, 7977, 8025, 8072,
      8118, 8164, 8209, 8254, 8298, 8342, 8385, 8428, 8470, 8512,
      8553, 8594, 8634, 8673, 8712, 8751, 8789, 8826, 8863, 8899,
      8935, 8970, 9005, 9039, 9072, 9105, 9138, 9169, 9201, 9231,
      9261, 9291, 9320, 9348, 9376, 9403, 9429, 9455, 9481, 9506,
      9530, 9554, 9577, 9599, 9621, 9642, 9663, 9683, 9702, 9721,
      9739, 9757, 9774, 9790, 9806, 9821, 9836, 9850, 9863, 9876,
      9888, 9899, 9910, 9920, 9930, 9939, 9947, 9955, 9962, 9969,
      9975, 9980, 9985, 9989, 9992, 9995, 9997, 9999, 10000, 10000 >>

(* np.sin of an angle of m / (4 TDen) turns. *)
SinTurn(m) ==
    LET r == m % (4 * TDen)
    IN IF r <= TDen THEN QuarterSine[r + 1]
       ELSE IF r <= 2 * TDen THEN QuarterSine[2 * TDen - r + 1]
       ELSE IF r <= 3 * TDen THEN -QuarterSine[r - 2 * TDen + 1]
       ELSE -QuarterSine[4 * TDen - r + 1]

(* Edge.Length() of the ellipse with radii (x, y), both positive. *)
EllipseLength(x, y) ==
    CASE <<x, y>> = <<4, 12>> -> 534596
      [] <<x, y>> = <<4, 5>> -> 283617

Max(a, b) == IF a >= b THEN a ELSE b

(* What the geometry kernel returns for radii (x, y); the empty set when    *)
(* it raises.  Its answer for a zero radius is fixed but not known here:   *)
(* degenerate says which it is, an exception ("raises"), a zero length     *)
(* ("zero") or the length of the flattened ellipse ("flat").               *)
KernelLengths(x, y, degenerate) ==
    IF x > 0 /\ y > 0 THEN {EllipseLength(x, y)}
    ELSE IF x < 0 \/ y < 0 \/ degenerate = "raises" THEN {}
    ELSE IF degenerate = "zero" THEN {0}
    ELSE {4 * Max(x, y) * SCALE}

-----------------------------------------------------------------------------
(* The numeric core of calculate_net_geometry *)

(* Faulty variant: np.linspace with endpoint=False, the span divided by num. *)
LinspaceOpen(start, stop, num) ==
    [i \in 1..num |-> start * (num - 1) + (i - 1) * (((stop - start) * (num - 1)) \div num)]

(* np.linspace(start, stop, num), endpoint included: start + i * step with *)
(* step = (stop - start) / (num - 1), the last value set to stop itself.   *)
(* The values are numerators over num - 1.                                 *)
Linspace(start, stop, num) ==
    [i \in 1..num |->
        IF i = num THEN stop * (num - 1)
        ELSE start * (num - 1) + (i - 1) * (stop - start)]

(* 2*np.pi*t/perimeter, in units of 1/(4 TDen) of a turn; 0/0 is a NaN. *)
Turns(tn, p) == IF p = 0 THEN NaN ELSE Num((4 * tn) \div p)

(* Faulty variant: the amplitude added to the sinusoid instead of scaling it. *)
CutValueAdded(start, amplitude, tn, p, shift) ==
    LET a == Turns(tn, p)
        s == IF a.k = "nan" THEN NaN ELSE Num(SinTurn(a.v + shift))
    IN FAdd(OfInt(start), FAdd(amplitude, FAdd(OfInt(1), s)))

(* start + amplitude * (1 + np.sin(2*np.pi*t/perimeter + shift)), the      *)
(* shift in units of 1/(4 TDen) of a turn (pi/2 is TDen).                  *)
CutValue(start, amplitude, tn, p, shift) ==
    LET a == Turns(tn, p)
        s == IF a.k = "nan" THEN NaN ELSE Num(SinTurn(a.v + shift))
    IN FAdd(OfInt(start), FMul(amplitude, FAdd(OfInt(1), s)))

(* MAJOR_AXIS * np.tan(np.radians(angle)) *)
Amplitude(major, angle) == FMul(OfInt(major), TanDeg(angle))

(* Line 58: phase shift -pi/2. *)
Cut1Y(tt, p, amplitude, start) ==
    [i \in 1..Len(tt) |-> CutValue(start, amplitude, tt[i], p, -TDen)]

(* Faulty variant: the second cut with the phase shift of the first. *)
Cut2YSamePhase(tt, p, amplitude, start) ==
    [i \in 1..Len(tt) |-> CutValue(start, amplitude, tt[i], p, -TDen)]

(* Line 59: phase shift +pi/2. *)
Cut2Y(tt, p, amplitude, start) ==
    [i \in 1..Len(tt) |-> CutValue(start, amplitude, tt[i], p, TDen)]

(* Faulty variant: the floor at 0 forgotten. *)
ClipHeightsNoFloor(y, h) ==
    [i \in 1..Len(y) |-> FMinimum(y[i], OfInt(h))]

(* np.minimum(np.maximum(y, 0), HEIGHT) *)
ClipHeights(y, h) ==
    [i \in 1..Len(y) |-> FMinimum(FMaximum(y[i], OfInt(0)), OfInt(h))]

-----------------------------------------------------------------------------
(* Logging and exceptions *)

Record(level, msg) == [level |-> level, msg |-> msg]

(* Line 18: the level of the root logger; a record below it is dropped. *)
LogLevel == "DEBUG"

LevelNo(level) ==
    CASE level = "DEBUG" -> 10
      [] level = "INFO" -> 20
      [] level = "ERROR" -> 40

Handled(level, msgs) ==
    IF LevelNo(level) >= LevelNo(LogLevel)
    THEN [i \in 1..Len(msgs) |-> Record(level, msgs[i])]
    ELSE <<>>

(* A logging call: one record to the stream handler and to the log file. *)
Emit(level, msg) ==
    /\ log' = log \o Handled(level, <<msg>>)
    /\ logFile' = logFile \o Handled(level, <<msg>>)

(* Two logging calls in a row. *)
Emit2(level, msg1, msg2) ==
    /\ log' = log \o Handled(level, <<msg1, msg2>>)
    /\ logFile' = logFile \o Handled(level, <<msg1, msg2>>)

(* Faulty variant: a handler that catches BaseException. *)
IsBaseException(class) == class \in {"Exception", "SystemExit"}

(* "except Exception" catches Exception and its subclasses; SystemExit     *)
(* derives from BaseException only.                                        *)
IsException(class) == class = "Exception"

(* Where control goes when a statement of the try block (lines 37-103) raises. *)
HandlerOf(class) == IF IsException(class) THEN "except" ELSE "unwind"

(* A step raises an exception and does not complete. *)
Raise(step) ==
    /\ exc' = "Exception"
    /\ failedAt' = step
    /\ pc' = HandlerOf("Exception")
    /\ UNCHANGED steps

(* A step completes and control moves on. *)
Done(step, next) ==
    /\ steps' = Append(steps, step)
    /\ pc' = next
    /\ UNCHANGED <<exc, failedAt>>

-----------------------------------------------------------------------------
(* Inputs *)

(* (MINOR_AXIS, MAJOR_AXIS, the kernel's answer to a zero radius) *)
AxisCases ==
    {<<MINOR_AXIS, MAJOR_AXIS, "n/a">>, <<MINOR_AXIS, 5, "n/a">>}
    \cup {<<ax[1], ax[2], d>> : ax \in {<<0, MAJOR_AXIS>>, <<MINOR_AXIS, 0>>},
                                d \in {"raises", "zero", "flat"}}
HeightValues == {0, 10, HEIGHT}
(* (cut angle, cut start height) *)
CutProfiles == {<<CUT1_ANGLE, CUT1_START_HEIGHT>>, <<CUT2_ANGLE, CUT2_START_HEIGHT>>,
                <<0, -OutOfRange>>, <<0, 5>>, <<0, HEIGHT + OutOfRange>>, <<-45, 10>>, <<90, 3>>}

Configs ==
    {[minorAxis |-> ax[1], majorAxis |-> ax[2], degenerate |-> ax[3], height |-> h,
      cut1Angle |-> c1[1], cut1Start |-> c1[2],
      cut2Angle |-> c2[1], cut2Start |-> c2[2]] :
        ax \in AxisCases, h \in HeightValues, c1 \in CutProfiles, c2 \in CutProfiles}

Init ==
    /\ cfg \in Configs
    /\ pc = "import"
    /\ perimeter = 0
    /\ t = <<>>
    /\ amplitude1 = Num(0)
    /\ amplitude2 = Num(0)
    /\ cut1_y = <<>>
    /\ cut2_y = <<>>
    /\ figure = "none"
    /\ log = <<>>
    /\ logFile = <<>>
    /\ pdfFile = "absent"
    /\ saveCalls = 0
    /\ exc = "none"
    /\ failedAt = "none"
    /\ steps = <<>>
    /\ exitCode = -1
    /\ run = 1
    /\ prev = <<>>

-----------------------------------------------------------------------------
(* The script, statement by statement *)

(* Lines 17-24: logging.basicConfig opens the log file for appending. *)
ConfigureLogging ==
    /\ pc = "import"
    /\ Done("logging", "main")
    /\ UNCHANGED <<cfg, locals, figure, log, logFile, pdfFile, saveCalls, exitCode, run, prev>>

(* The log file cannot be opened: the exception is raised at module level, *)
(* outside every try block, and the interpreter exits with status 1.       *)
ConfigureLoggingRaise ==
    /\ pc = "import"
    /\ exc' = "Exception"
    /\ failedAt' = "logging"
    /\ pc' = "exited"
    /\ exitCode' = 1
    /\ UNCHANGED <<cfg, locals, figure, log, logFile, pdfFile, saveCalls, steps, run, prev>>

(* Lines 111-113 *)
MainStart ==
    /\ pc = "main"
    /\ Emit("INFO", "Starting net generation")
    /\ Done("main", "start")
    /\ UNCHANGED <<cfg, locals, figure, pdfFile, saveCalls, exitCode, run, prev>>

(* Line 38 *)
LogStart ==
    /\ pc = "start"
    /\ Emit("INFO", "Starting geometry calculation")
    /\ Done("start", "path")
    /\ UNCHANGED <<cfg, locals, figure, pdfFile, saveCalls, exitCode, run, prev>>

(* Lines 41-43 *)
OutputPath ==
    /\ pc = "path"
    /\ Emit("INFO", "Output path")
    /\ Done("path", "ellipse")
    /\ UNCHANGED <<cfg, locals, figure, pdfFile, saveCalls, exitCode, run, prev>>

(* Lines 46-47 *)
CreateEllipse ==
    /\ pc = "ellipse"
    /\ \E p \in KernelLengths(cfg.minorAxis, cfg.majorAxis, cfg.degenerate) : perimeter' = p
    /\ Done("perimeter", "logperimeter")
    /\ UNCHANGED <<cfg, t, amplitude1, amplitude2, cut1_y, cut2_y, figure, log, logFile,
                   pdfFile, saveCalls, exitCode, run, prev>>

CreateEllipseRaise ==
    /\ pc = "ellipse"
    /\ Raise("perimeter")
    /\ UNCHANGED <<cfg, locals, figure, log, logFile, pdfFile, saveCalls, exitCode, run, prev>>

(* Line 48 *)
LogPerimeter ==
    /\ pc = "logperimeter"
    /\ Emit("DEBUG", "Perimeter calculated")
    /\ Done("logperimeter", "sample")
    /\ UNCHANGED <<cfg, locals, figure, pdfFile, saveCalls, exitCode, run, prev>>

(* Faulty variant: the samples are not recomputed when the output document of an  *)
(* earlier run exists.                                                     *)
SampleUnlessExported ==
    /\ pc = "sample"
    /\ t' = IF pdfFile = "complete" THEN Linspace(0, 0, N) ELSE Linspace(0, perimeter, N)
    /\ Done("sampling", "amplitude")
    /\ UNCHANGED <<cfg, perimeter, amplitude1, amplitude2, cut1_y, cut2_y, figure, log,
                   logFile, pdfFile, saveCalls, exitCode, run, prev>>

(* Line 51 *)
Sample ==
    /\ pc = "sample"
    /\ t' = Linspace(0, perimeter, N)
    /\ Done("sampling", "amplitude")
    /\ UNCHANGED <<cfg, perimeter, amplitude1, amplitude2, cut1_y, cut2_y, figure, log,
                   logFile, pdfFile, saveCalls, exitCode, run, prev>>

SampleRaise ==
    /\ pc = "sample"
    /\ Raise("sampling")
    /\ UNCHANGED <<cfg, locals, figure, log, logFile, pdfFile, saveCalls, exitCode, run, prev>>

(* Lines 54-55 *)
Amplitudes ==
    /\ pc = "amplitude"
    /\ amplitude1' = Amplitude(cfg.majorAxis, cfg.cut1Angle)
    /\ amplitude2' = Amplitude(cfg.majorAxis, cfg.cut2Angle)
    /\ Done("amplitude", "curves")
    /\ UNCHANGED <<cfg, perimeter, t, cut1_y, cut2_y, figure, log, logFile, pdfFile,
                   saveCalls, exitCode, run, prev>>

(* Lines 58-59 *)
CutLines ==
    /\ pc = "curves"
    /\ cut1_y' = Cut1Y(t, perimeter, amplitude1, cfg.cut1Start)
    /\ cut2_y' = Cut2Y(t, perimeter, amplitude2, cfg.cut2Start)
    /\ Done("curves", "clip")
    /\ UNCHANGED <<cfg, perimeter, t, amplitude1, amplitude2, figure, log, logFile,
                   pdfFile, saveCalls, exitCode, run, prev>>

CutLinesRaise ==
    /\ pc = "curves"
    /\ Raise("curves")
    /\ UNCHANGED <<cfg, locals, figure, log, logFile, pdfFile, saveCalls, exitCode, run, prev>>

(* Lines 62-63 *)
Clip ==
    /\ pc = "clip"
    /\ cut1_y' = ClipHeights(cut1_y, cfg.height)
    /\ cut2_y' = ClipHeights(cut2_y, cfg.height)
    /\ Done("clip", "logplot")
    /\ UNCHANGED <<cfg, perimeter, t, amplitude1, amplitude2, figure, log, logFile,
                   pdfFile, saveCalls, exitCode, run, prev>>

(* Line 65 *)
LogCreatingPlot ==
    /\ pc = "logplot"
    /\ Emit("INFO", "Creating plot")
    /\ Done("logplot", "plot")
    /\ UNCHANGED <<cfg, locals, figure, pdfFile, saveCalls, exitCode, run, prev>>

(* Lines 67-89 *)
Plot ==
    /\ pc = "plot"
    /\ figure' = "drawn"
    /\ Done("plot", "logsaving")
    /\ UNCHANGED <<cfg, locals, log, logFile, pdfFile, saveCalls, exitCode, run, prev>>

(* Faulty variant: a plotting failure is swallowed and the run goes on to save. *)
PlotRaiseIgnored ==
    /\ pc = "plot"
    /\ failedAt' = "plot"
    /\ pc' = "logsaving"
    /\ UNCHANGED <<cfg, locals, figure, log, logFile, pdfFile, saveCalls, exc, steps,
                   exitCode, run, prev>>

PlotRaise ==
    /\ pc = "plot"
    /\ Raise("plot")
    /\ UNCHANGED <<cfg, locals, figure, log, logFile, pdfFile, saveCalls, exitCode, run, prev>>

(* Faulty variant: the save is confirmed before the document is written. *)
LogSavingConfirmsEarly ==
    /\ pc = "logsaving"
    /\ Emit2("INFO", "Saving PDF...", "PDF saved to")
    /\ Done("logsaving", "savefig")
    /\ UNCHANGED <<cfg, locals, figure, pdfFile, saveCalls, exitCode, run, prev>>

(* Line 91 *)
LogSaving ==
    /\ pc = "logsaving"
    /\ Emit("INFO", "Saving PDF...")
    /\ Done("logsaving", "savefig")
    /\ UNCHANGED <<cfg, locals, figure, pdfFile, saveCalls, exitCode, run, prev>>

(* Lines 92-100 *)
SaveFig ==
    /\ pc = "savefig"
    /\ pdfFile' = "complete"
    /\ saveCalls' = saveCalls + 1
    /\ Done("savefig", "logsaved")
    /\ UNCHANGED <<cfg, locals, figure, log, logFile, exitCode, run, prev>>

(* The write fails before the file is opened or part way through it. *)
SaveFigRaise ==
    /\ pc = "savefig"
    /\ pdfFile' \in {pdfFile, "partial"}
    /\ saveCalls' = saveCalls + 1
    /\ Raise("savefig")
    /\ UNCHANGED <<cfg, locals, figure, log, logFile, exitCode, run, prev>>

(* Line 101 *)
LogSaved ==
    /\ pc = "logsaved"
    /\ Emit("INFO", "PDF saved to")
    /\ Done("logsaved", "show")
    /\ UNCHANGED <<cfg, locals, figure, pdfFile, saveCalls, exitCode, run, prev>>

(* Line 103 *)
Show ==
    /\ pc = "show"
    /\ figure' = "shown"
    /\ Done("show", "return")
    /\ UNCHANGED <<cfg, locals, log, logFile, pdfFile, saveCalls, exitCode, run, prev>>

ShowRaise ==
    /\ pc = "show"
    /\ Raise("show")
    /\ UNCHANGED <<cfg, locals, figure, log, logFile, pdfFile, saveCalls, exitCode, run, prev>>

(* The function returns, the __main__ block ends, the interpreter exits 0. *)
Return ==
    /\ pc = "return"
    /\ pc' = "exited"
    /\ exitCode' = 0
    /\ UNCHANGED <<cfg, locals, figure, log, logFile, pdfFile, saveCalls, exc, failedAt,
                   steps, run, prev>>

(* Faulty variant: the handler logs and returns, sys.exit(1) forgotten. *)
ExceptHandlerReturns ==
    /\ pc = "except"
    /\ Emit2("ERROR", "Error occurred", "traceback")
    /\ exc' = "none"
    /\ pc' = "return"
    /\ steps' = Append(steps, "except")
    /\ UNCHANGED <<cfg, locals, figure, pdfFile, saveCalls, failedAt, exitCode, run, prev>>

(* Lines 105-108: the handler of calculate_net_geometry; sys.exit(1)       *)
(* raises SystemExit(1), which leaves the function.                        *)
ExceptHandler ==
    /\ pc = "except"
    /\ Emit2("ERROR", "Error occurred", "traceback")
    /\ exc' = "SystemExit"
    /\ pc' = "unwind"
    /\ steps' = Append(steps, "except")
    /\ UNCHANGED <<cfg, locals, figure, pdfFile, saveCalls, failedAt, exitCode, run, prev>>

(* Lines 114-117: an exception leaves calculate_net_geometry and meets the *)
(* handler of the __main__ block; one it does not catch ends the process   *)
(* (SystemExit(1): status 1).                                              *)
MainExcept ==
    /\ pc = "unwind"
    /\ IF IsException(exc)
         THEN /\ Emit2("ERROR", "Main execution error", "traceback")
              /\ steps' = Append(steps, "mainexcept")
         ELSE /\ UNCHANGED <<log, logFile, steps>>
    /\ exc' = "SystemExit"
    /\ pc' = "exited"
    /\ exitCode' = 1
    /\ UNCHANGED <<cfg, locals, figure, pdfFile, saveCalls, failedAt, run, prev>>

(* The run has completed step s. *)
Did(s) == \E i \in 1..Len(steps) : steps[i] = s

(* The net a run has computed once its clipping step is done. *)
Computed == Did("clip")

Net == [t |-> t, cut1 |-> cut1_y, cut2 |-> cut2_y]

(* The script is run again: a new process with the same parameters, the    *)
(* log file and the output document as the earlier run left them.          *)
Rerun ==
    /\ pc = "exited"
    /\ run < MaxRuns
    /\ run' = run + 1
    /\ prev' = IF Computed THEN <<Net>> ELSE prev
    /\ pc' = "import"
    /\ perimeter' = 0
    /\ t' = <<>>
    /\ amplitude1' = Num(0)
    /\ amplitude2' = Num(0)
    /\ cut1_y' = <<>>
    /\ cut2_y' = <<>>
    /\ figure' = "none"
    /\ log' = <<>>
    /\ saveCalls' = 0
    /\ exc' = "none"
    /\ failedAt' = "none"
    /\ steps' = <<>>
    /\ exitCode' = -1
    /\ UNCHANGED <<cfg, logFile, pdfFile>>

Next ==
    \/ ConfigureLogging
    \/ ConfigureLoggingRaise
    \/ MainStart
    \/ LogStart
    \/ OutputPath
    \/ CreateEllipse
    \/ CreateEllipseRaise
    \/ LogPerimeter
    \/ Sample
    \/ SampleRaise
    \/ Amplitudes
    \/ CutLines
    \/ CutLinesRaise
    \/ Clip
    \/ LogCreatingPlot
    \/ Plot
    \/ PlotRaise
    \/ LogSaving
    \/ SaveFig
    \/ SaveFigRaise
    \/ LogSaved
    \/ Show
    \/ ShowRaise
    \/ Return
    \/ ExceptHandler
    \/ MainExcept

Spec == Init /\ [][Next]_vars

(* Runs of the script one after another, on the built-in prism and second *)
(* cut or on a degenerate ellipse.                                         *)
InitRerun ==
    /\ Init
    /\ cfg.height = HEIGHT
    /\ cfg.cut2Angle = CUT2_ANGLE
    /\ cfg.cut2Start = CUT2_START_HEIGHT
    /\ cfg.majorAxis \in {0, MAJOR_AXIS}

SpecRerun == InitRerun /\ [][Next \/ Rerun]_vars

-----------------------------------------------------------------------------
(* Vocabulary of the properties *)

ValidAxes == cfg.minorAxis > 0 /\ cfg.majorAxis > 0

ValidAngle(a) == -90 < a /\ a < 90

ValidInputs ==
    /\ ValidAxes
    /\ cfg.height > 0
    /\ ValidAngle(cfg.cut1Angle)
    /\ ValidAngle(cfg.cut2Angle)

BuiltIn ==
    /\ cfg.minorAxis = MINOR_AXIS
    /\ cfg.majorAxis = MAJOR_AXIS
    /\ cfg.height = HEIGHT
    /\ cfg.cut1Angle = CUT1_ANGLE
    /\ cfg.cut1Start = CUT1_START_HEIGHT
    /\ cfg.cut2Angle = CUT2_ANGLE
    /\ cfg.cut2Start = CUT2_START_HEIGHT

(* The steps of the script in program order. *)
Pipeline ==
    <<"logging", "main", "start", "path", "perimeter", "logperimeter", "sampling",
      "amplitude", "curves", "clip", "logplot", "plot", "logsaving", "savefig",
      "logsaved", "show">>

IndexOf(s) == CHOOSE i \in 1..Len(Pipeline) : Pipeline[i] = s

(* The steps inside the try block of calculate_net_geometry that can raise. *)
PipelineFailures == {"perimeter", "sampling", "curves", "plot", "savefig", "show"}

(* The step that emits a stage message. *)
EmittedBy(msg) ==
    CASE msg = "Starting net generation" -> "main"
      [] msg = "Starting geometry calculation" -> "start"
      [] msg = "Output path" -> "path"
      [] msg = "Perimeter calculated" -> "logperimeter"
      [] msg = "Creating plot" -> "logplot"
      [] msg = "Saving PDF..." -> "logsaving"
      [] msg = "PDF saved to" -> "logsaved"

ErrorMessages == {"Error occurred", "traceback", "Main execution error"}

Positions(msg) == {i \in 1..Len(log) : log[i].msg = msg}

Logged(msg) == Positions(msg) # {}

(* The cut lines as lines 58-59 leave them, recomputed from the locals. *)
Raw1 == Cut1Y(t, perimeter, amplitude1, cfg.cut1Start)
Raw2 == Cut2Y(t, perimeter, amplitude2, cfg.cut2Start)

-----------------------------------------------------------------------------
(* C1: for valid inputs, after the clipping step every value of cutLine1   *)
(* and cutLine2 lies in [0, HEIGHT]; a raw value below 0 has become 0, one *)
(* above HEIGHT has become HEIGHT, and one in between is kept.             *)
ClippedFrom(raw, y, h) ==
    /\ raw.k = "num"
    /\ y.k = "num"
    /\ 0 <= y.v /\ y.v <= h * SCALE
    /\ raw.v < 0 => y.v = 0
    /\ raw.v > h * SCALE => y.v = h * SCALE
    /\ (0 <= raw.v /\ raw.v <= h * SCALE) => y.v = raw.v

C1_ClippedWithinHeight ==
    (ValidInputs /\ Computed) =>
        /\ Len(cut1_y) = N /\ Len(cut2_y) = N
        /\ \A i \in 1..N :
            /\ ClippedFrom(Raw1[i], cut1_y[i], cfg.height)
            /\ ClippedFrom(Raw2[i], cut2_y[i], cfg.height)

C1_Witness ==
    /\ ValidInputs /\ Computed
    /\ \E i \in 1..N : Raw1[i].v < 0 /\ cut1_y[i].v = 0
    /\ \E i \in 1..N : Raw2[i].v > cfg.height * SCALE /\ cut2_y[i].v = cfg.height * SCALE

(* C2: with an axis or the height <= 0, or a cut angle of +90 or -90       *)
(* degrees, the run never reaches the plot and save steps and does not end *)
(* with exit code 0.                                                       *)
InvalidParameters ==
    \/ cfg.majorAxis <= 0
    \/ cfg.minorAxis <= 0
    \/ cfg.height <= 0
    \/ cfg.cut1Angle \in {-90, 90}
    \/ cfg.cut2Angle \in {-90, 90}

C2_InvalidInputNeverRendered ==
    InvalidParameters => (~Did("plot") /\ saveCalls = 0 /\ exitCode # 0)

(* C3: an exception raised by a step of the pipeline is caught; its        *)
(* message and traceback are logged at error level, the process exits with *)
(* code 1, and neither the failing step nor any later step completes.      *)
C3_FailureLoggedThenExit1 ==
    failedAt \in PipelineFailures =>
        /\ pc \in {"except", "unwind", "exited"}
        /\ \A i \in 1..Len(steps) :
              steps[i] = "except" \/ IndexOf(steps[i]) < IndexOf(failedAt)
        /\ pc \in {"unwind", "exited"} =>
              /\ Len(log) >= 2
              /\ log[Len(log) - 1] = Record("ERROR", "Error occurred")
              /\ log[Len(log)] = Record("ERROR", "traceback")
        /\ pc = "exited" => exitCode = 1
        /\ exitCode # 0

C3_Witness == pc = "exited" /\ failedAt = "plot" /\ exitCode = 1

(* C4: for positive axes the samples are N = 200 values, the first 0, the  *)
(* last the perimeter, evenly spaced and strictly increasing, and both cut *)
(* lines have as many values as the samples.                               *)
C4_SamplesSpanPerimeter ==
    ValidAxes =>
        /\ Did("sampling") =>
              /\ Len(t) = 200
              /\ t[1] = 0
              /\ t[Len(t)] = perimeter * TDen
              /\ \A i \in 1..(Len(t) - 1) :
                    /\ t[i + 1] - t[i] = t[2] - t[1]
                    /\ t[i + 1] > t[i]
        /\ Did("curves") => (Len(cut1_y) = Len(t) /\ Len(cut2_y) = Len(t))

C4_Witness == ValidAxes /\ Did("curves") /\ perimeter > 0

Clamped(start, h) ==
    LET lo == IF start < 0 THEN 0 ELSE start
    IN IF lo > h THEN h ELSE lo

C6_ZeroAngleFlat ==
    (ValidAxes /\ Computed) =>
        /\ cfg.cut1Angle = 0 =>
              /\ amplitude1 = Num(0)
              /\ \A i \in 1..N : cut1_y[i] = OfInt(Clamped(cfg.cut1Start, cfg.height))
        /\ cfg.cut2Angle = 0 =>
              /\ amplitude2 = Num(0)
              /\ \A i \in 1..N : cut2_y[i] = OfInt(Clamped(cfg.cut2Start, cfg.height))

C6_Witness ==
    /\ ValidAxes /\ Computed /\ cfg.height > 0
    /\ cfg.cut1Angle = 0 /\ cfg.cut1Start \in 1..cfg.height /\ cut1_y[N] = OfInt(cfg.cut1Start)
    /\ cfg.cut2Angle = 0 /\ cfg.cut2Start > cfg.height /\ cut2_y[N] = OfInt(cfg.height)

Stages ==
    <<"Starting geometry calculation", "Output path", "Perimeter calculated",
      "Creating plot", "PDF saved to">>

C8_LogOrder ==
    /\ exitCode = 0 =>
          /\ \A k \in 1..Len(Stages) : Cardinality(Positions(Stages[k])) = 1
          /\ \A k \in 1..(Len(Stages) - 1) :
                \A i \in Positions(Stages[k]), j \in Positions(Stages[k + 1]) : i < j
    /\ Logged("PDF saved to") => (Did("savefig") /\ pdfFile = "complete" /\ saveCalls = 1)
    /\ failedAt # "none" =>
          \A i \in 1..Len(log) :
              \/ log[i].msg \in ErrorMessages
              \/ IndexOf(EmittedBy(log[i].msg)) < IndexOf(failedAt)

C8_Witness == exitCode = 0 /\ Logged("PDF saved to") /\ Len(log) = 7

(* C9: a run calls savefig at most once: exactly once when it exits with   *)
(* code 0, only after the cut lines are clipped and the plot drawn, never  *)
(* when an earlier step failed, and not again when the write failed.       *)
C9_SavedAtMostOnce ==
    /\ saveCalls <= 1
    /\ exitCode = 0 => (saveCalls = 1 /\ pdfFile = "complete")
    /\ saveCalls > 0 => (Computed /\ Did("plot"))
    /\ failedAt \in {"logging", "perimeter", "sampling", "curves", "plot"} =>
          (saveCalls = 0 /\ pdfFile = "absent")
    /\ failedAt = "savefig" => (saveCalls = 1 /\ pdfFile # "complete")

C9_Witness == exitCode = 0 /\ saveCalls = 1 /\ pdfFile = "complete"

(* C10: a failure inside calculate_net_geometry is logged once, by the     *)
(* handler of the function, which exits with code 1; the handler of the    *)
(* __main__ block does not run and 'Main execution error' is not logged.   *)
C10_HandledOnce ==
    failedAt \in PipelineFailures =>
        /\ ~Logged("Main execution error")
        /\ ~Did("mainexcept")
        /\ Cardinality(Positions("Error occurred")) <= 1
        /\ Cardinality(Positions("traceback")) <= 1
        /\ pc = "exited" =>
              /\ Cardinality(Positions("Error occurred")) = 1
              /\ Did("except")
              /\ exitCode = 1

C10_Witness == pc = "exited" /\ failedAt = "savefig" /\ Logged("Error occurred")
====
